---- MODULE Spec2Model ----
(***************************************************************************)
(* Model of weather-app/weather.js: normalizeLocation, fetchWeatherData    *)
(* (with its inner tryFetch) and the /weather branch of the HTTP request   *)
(* handler.                                                                *)
(*                                                                         *)
(* A JavaScript string is a sequence of UTF-16 code units; each code unit  *)
(* is written as a one-character TLA+ string, except the unpaired          *)
(* surrogate, which is written "\\uD800".  A message (an error text) is a  *)
(* sequence of text fragments, so that String.prototype.includes is a      *)
(* search for a fragment.                                                  *)
(***************************************************************************)
EXTENDS Integers, Sequences, FiniteSets, TLC

VARIABLES
    pc,             \* position of the request: idle, await1, await2, settled, responded
    apiKey,         \* process.env.API_KEY
    location,       \* parsedUrl.query.location of the request
    normalizedCity, \* fetchWeatherData's normalizedCity
    calls,          \* queries handed to axios.get, in order
    responses,      \* outcomes the provider gave to those calls, in order
    result,         \* how the promise of fetchWeatherData settled
    logs,           \* console.error entries written by fetchWeatherData
    http,           \* the HTTP response written by the request handler
    applied         \* successive results of normalizeLocation (SpecNorm only)

vars == <<pc, apiKey, location, normalizedCity, calls, responses, result, logs, http, applied>>

----------------------------------------------------------------------------
(* Bounds *)

\* number of segments an input of normalizeLocation is concatenated from
MaxParts == 4

\* number of segments a location of a /weather request is concatenated from
MaxLookupParts == 3

----------------------------------------------------------------------------
(* Strings *)

LoneSurrogate == "\\uD800"

\* White_Space and LineTerminator code units: what trim() strips and \s matches
IsWhitespace(c) == c \in {" ", "\t"}

\* Canonicalize of the /i flag: the code unit's upper case
Canonicalize(c) ==
    CASE c = "u" -> "U" [] c = "k" -> "K" [] c = "s" -> "S" [] c = "a" -> "A"
      [] c = "n" -> "N" [] c = "i" -> "I" [] c = "t" -> "T" [] c = "e" -> "E"
      [] c = "d" -> "D" [] c = "g" -> "G" [] c = "o" -> "O" [] c = "m" -> "M"
      [] c = "b" -> "B" [] c = "l" -> "L"
      [] OTHER -> c

RECURSIVE TrimStart(_)
TrimStart(s) ==
    IF s # <<>> /\ IsWhitespace(Head(s)) THEN TrimStart(Tail(s)) ELSE s

RECURSIVE TrimEnd(_)
TrimEnd(s) ==
    IF s # <<>> /\ IsWhitespace(s[Len(s)]) THEN TrimEnd(SubSeq(s, 1, Len(s) - 1)) ELSE s

\* String.prototype.trim
Trim(s) == TrimEnd(TrimStart(s))

\* s.split(',')[0]: the part of s before its first comma, s itself without one
SplitFirst(s) ==
    LET commas == {i \in 1..Len(s) : s[i] = ","}
    IN  IF commas = {} THEN s
        ELSE SubSeq(s, 1, (CHOOSE i \in commas : \A j \in commas : i <= j) - 1)

\* whether t, a whole suffix of the subject, is matched by /\s*,\s*TOKEN\s*$/i
SuffixMatches(t, token) ==
    LET a == TrimStart(t)
        b == IF a = <<>> THEN <<>> ELSE TrimStart(Tail(a))
    IN  /\ a # <<>>
        /\ Head(a) = ","
        /\ Len(b) >= Len(token)
        /\ \A k \in 1..Len(token) : Canonicalize(b[k]) = Canonicalize(token[k])
        /\ \A k \in (Len(token) + 1)..Len(b) : IsWhitespace(b[k])

\* s.replace(/\s*,\s*TOKEN\s*$/i, replacement): the leftmost match is replaced
ReplaceSuffix(s, token, replacement) ==
    LET starts == {i \in 1..Len(s) : SuffixMatches(SubSeq(s, i, Len(s)), token)}
    IN  IF starts = {} THEN s
        ELSE SubSeq(s, 1, (CHOOSE i \in starts : \A j \in starts : i <= j) - 1)
                \o replacement

TokenUK == <<"U", "K">>
TokenUSA == <<"U", "S", "A">>
TokenUnitedKingdom == <<"U", "n", "i", "t", "e", "d", " ", "K", "i", "n", "g", "d", "o", "m">>
CommaGB == <<",", "G", "B">>
CommaUS == <<",", "U", "S">>

\* a slip in the third rewrite: the country name is rewritten to UK, not GB
normalizeLocationWrongCode(loc) ==
    ReplaceSuffix(
        ReplaceSuffix(
            ReplaceSuffix(Trim(loc), TokenUK, CommaGB),
            TokenUSA, CommaUS),
        TokenUnitedKingdom, <<",", "U", "K">>)

normalizeLocation(loc) ==
    ReplaceSuffix(
        ReplaceSuffix(
            ReplaceSuffix(Trim(loc), TokenUK, CommaGB),
            TokenUSA, CommaUS),
        TokenUnitedKingdom, CommaGB)

\* encodeURIComponent: unreserved code units stay, the others are
\* percent-encoded, an unpaired surrogate raises URIError
EncodeUnit(c) ==
    CASE c = " " -> <<"%", "2", "0">>
      [] c = "\t" -> <<"%", "0", "9">>
      [] c = "," -> <<"%", "2", "C">>
      [] OTHER -> <<c>>

RECURSIVE EncodeAll(_)
EncodeAll(s) ==
    IF s = <<>> THEN <<>> ELSE EncodeUnit(Head(s)) \o EncodeAll(Tail(s))

encodeURIComponent(s) ==
    IF \E i \in 1..Len(s) : s[i] = LoneSurrogate
    THEN [threw |-> TRUE, text |-> <<>>]
    ELSE [threw |-> FALSE, text |-> EncodeAll(s)]

----------------------------------------------------------------------------
(* Inputs *)

\* every concatenation of at most n of the segments
RECURSIVE Concats(_, _)
Concats(segments, n) ==
    IF n = 0 THEN {<<>>}
    ELSE LET shorter == Concats(segments, n - 1)
         IN  shorter \cup {s \o t : s \in shorter, t \in segments}

NormSegments ==
    { <<"L">>, <<" ">>, <<",">>, TokenUK, <<"u", "k">>, TokenUSA, <<"U", "s", "a">>,
      TokenUnitedKingdom, <<"G", "B">>, <<"U", "S">> }

LookupSegments ==
    { <<"L">>, <<" ">>, <<",">>, TokenUK, <<LoneSurrogate>> }

----------------------------------------------------------------------------
(* Configuration *)

Placeholder == "your_openweathermap_api_key"

\* process.env.API_KEY: undefined, empty, the placeholder, or a key
ApiKeys ==
    { [defined |-> FALSE, value |-> ""],
      [defined |-> TRUE, value |-> ""],
      [defined |-> TRUE, value |-> Placeholder],
      [defined |-> TRUE, value |-> "key"] }

\* a slip: only !apiKey is tested, the placeholder passes for a key
KeyConfiguredIgnoresPlaceholder(k) == k.defined /\ k.value # ""

\* !apiKey || apiKey === 'your_openweathermap_api_key' is false
KeyConfigured(k) == k.defined /\ k.value # "" /\ k.value # Placeholder

----------------------------------------------------------------------------
(* Messages *)

MsgKeyNotSet == <<"API key not set", ". Add your Tomorrow.io API key to the .env file.">>
MsgInvalidKey == <<"Invalid API key", ". Check your .env file or get a key from tomorrow.io">>
MsgNotFound == <<"Location not found", ". Try a different spelling or add country code (e.g. London, GB).">>
MsgTooMany == <<"Too many requests", ". Please try again later.">>
MsgCouldNotFetch == <<"Could not fetch weather.">>
MsgInvalidResponse == <<"Invalid response">>
MsgParamMissing == <<"Location parameter missing">>
MsgInternal == <<"Internal Server Error">>
MsgHandlerNotFound == <<"Location not found">>

\* message.includes(needle), for a needle that is one fragment
Includes(message, needle) == \E i \in 1..Len(message) : message[i] = needle

----------------------------------------------------------------------------
(* The provider *)

None == [has |-> FALSE, n |-> 0]
Some(n) == [has |-> TRUE, n |-> n]

NoValues ==
    [present |-> FALSE, temperature |-> None, temperatureApparent |-> None, weatherCode |-> None]

\* data.data.values of a 2xx response; temperatures in thousandths of a degree
ValuesSet ==
    { [present |-> TRUE, temperature |-> t[1], temperatureApparent |-> t[2], weatherCode |-> c] :
        t \in {<<None, None>>, <<None, Some(7004)>>, <<Some(18456), Some(7004)>>},
        c \in {None, Some(1000), Some(9999)} }

\* data.location of a 2xx response: name and address, <<>> when absent or empty
LocationSet ==
    { [name |-> <<>>, address |-> <<>>],
      [name |-> <<"N">>, address |-> <<"A">>],
      [name |-> <<>>, address |-> <<"A">>] }

NoLocation == [name |-> <<>>, address |-> <<>>]

\* error.response.data of an error response: message and error, <<>> when absent or empty
ErrorDataSet ==
    { [message |-> <<>>, error |-> <<>>],
      [message |-> <<"The location was not found">>, error |-> <<>>],
      [message |-> <<>>, error |-> <<"Bad Request">>],
      [message |-> <<"Invalid API key", " supplied">>, error |-> <<"Forbidden">>] }

NoErrorData == [message |-> <<>>, error |-> <<>>]

ErrorStatuses == {400, 401, 403, 404, 429, 500}

StatusText(status) ==
    CASE status = 400 -> "400" [] status = 401 -> "401" [] status = 403 -> "403"
      [] status = 404 -> "404" [] status = 429 -> "429" [] status = 500 -> "500"
      [] OTHER -> "?"

\* what axios.get can settle with: a 2xx response (resolved), an error with a
\* response (rejected, status outside 2xx), an error without a response
Outcomes ==
    { [kind |-> "ok", status |-> 200, values |-> NoValues, location |-> NoLocation,
       errorData |-> NoErrorData, message |-> <<>>] }
    \cup
    { [kind |-> "ok", status |-> 200, values |-> v, location |-> l,
       errorData |-> NoErrorData, message |-> <<>>] : v \in ValuesSet, l \in LocationSet }
    \cup
    { [kind |-> "http", status |-> st, values |-> NoValues, location |-> NoLocation,
       errorData |-> d, message |-> <<"Request failed with status code ", StatusText(st)>>] :
        st \in ErrorStatuses, d \in ErrorDataSet }
    \cup
    { [kind |-> "network", status |-> 0, values |-> NoValues, location |-> NoLocation,
       errorData |-> NoErrorData, message |-> m] : m \in {<<"Network Error">>, <<>>} }

----------------------------------------------------------------------------
(* tryFetch *)

WEATHER_CODES ==
    1000 :> "Clear" @@ 1100 :> "Mostly Clear" @@ 1101 :> "Partly Cloudy" @@
    1102 :> "Mostly Cloudy" @@ 1001 :> "Cloudy" @@ 2000 :> "Fog" @@ 2100 :> "Light Fog" @@
    4000 :> "Drizzle" @@ 4001 :> "Rain" @@ 4200 :> "Light Rain" @@ 4201 :> "Heavy Rain" @@
    5000 :> "Snow" @@ 5001 :> "Flurries" @@ 5100 :> "Light Snow" @@ 5101 :> "Heavy Snow" @@
    6000 :> "Freezing Drizzle" @@ 6001 :> "Freezing Rain" @@
    6200 :> "Light Freezing Rain" @@ 6201 :> "Heavy Freezing Rain" @@
    7000 :> "Ice Pellets" @@ 7101 :> "Heavy Ice Pellets" @@ 7102 :> "Light Ice Pellets" @@
    8000 :> "Thunderstorm"

\* WEATHER_CODES[code] || (code != null ? `Weather code ${code}` : 'N/A')
Description(code) ==
    IF code.has /\ code.n \in DOMAIN WEATHER_CODES
    THEN [text |-> WEATHER_CODES[code.n], code |-> None]
    ELSE IF code.has THEN [text |-> "Weather code ", code |-> code]
    ELSE [text |-> "N/A", code |-> None]

\* Number(temp).toFixed(2), from thousandths to hundredths of a degree
ToFixed2(t) == IF t >= 0 THEN (t + 5) \div 10 ELSE 0 - ((5 - t) \div 10)

\* (temp != null ? Number(temp).toFixed(2) : '—') + '°C'
Temperature(values) ==
    LET temp == IF values.temperature.has THEN values.temperature
                ELSE values.temperatureApparent
    IN  IF temp.has THEN [dash |-> FALSE, hundredths |-> ToFixed2(temp.n), unit |-> "°C"]
        ELSE [dash |-> TRUE, hundredths |-> 0, unit |-> "°C"]

\* location?.name || location?.address || query.split(',')[0].trim() || query
CityName(loc, query) ==
    IF loc.name # <<>> THEN loc.name
    ELSE IF loc.address # <<>> THEN loc.address
    ELSE IF Trim(SplitFirst(query)) # <<>> THEN Trim(SplitFirst(query))
    ELSE query

NoTemperature == [dash |-> TRUE, hundredths |-> 0, unit |-> ""]
NoDescription == [text |-> "", code |-> None]

\* the promise of fetchWeatherData: pending, fulfilled with an object that has
\* the listed keys, or rejected with an exception
Pending ==
    [state |-> "pending", keys |-> {}, city |-> <<>>, temperature |-> NoTemperature,
     description |-> NoDescription, error |-> <<>>]

Success(city, temperature, description) ==
    [state |-> "fulfilled", keys |-> {"city", "temperature", "description"}, city |-> city,
     temperature |-> temperature, description |-> description, error |-> <<>>]

Failure(message) ==
    [state |-> "fulfilled", keys |-> {"error"}, city |-> <<>>, temperature |-> NoTemperature,
     description |-> NoDescription, error |-> message]

Rejected(message) ==
    [state |-> "rejected", keys |-> {}, city |-> <<>>, temperature |-> NoTemperature,
     description |-> NoDescription, error |-> message]

\* the exception tryFetch throws for an outcome, if any: axios's error, or
\* Error('Invalid response') for a response without values
ThrownBy(o) ==
    IF o.kind = "ok"
    THEN [threw |-> ~o.values.present, hasResponse |-> FALSE, status |-> 0,
          data |-> NoErrorData, message |-> MsgInvalidResponse]
    ELSE [threw |-> TRUE, hasResponse |-> o.kind = "http", status |-> o.status,
          data |-> o.errorData, message |-> o.message]

\* what tryFetch returns for a response with values
TryFetchValue(query, o) ==
    Success(CityName(o.location, query), Temperature(o.values), Description(o.values.weatherCode))

----------------------------------------------------------------------------
(* fetchWeatherData: the catch block *)

\* error.response?.status === n
StatusIs(err, n) == err.hasResponse /\ err.status = n

\* error.response?.data?.message || error.response?.data?.error
ApiMessage(err) == IF err.data.message # <<>> THEN err.data.message ELSE err.data.error

\* normalizedCity.split(',')[0].trim()
CityOnly(city) == Trim(SplitFirst(city))

\* a slip: the retry is attempted after any failure but 401
ShouldRetryOnAnyError(err, city) ==
    /\ ~StatusIs(err, 401)
    /\ CityOnly(city) # city

\* a slip: the retry is attempted whether or not the city-only query differs
ShouldRetryWithoutCommaCheck(err, city) ==
    /\ ~StatusIs(err, 401)
    /\ StatusIs(err, 404) \/ StatusIs(err, 400)

\* whether the catch block reaches the second tryFetch
ShouldRetry(err, city) ==
    /\ ~StatusIs(err, 401)
    /\ StatusIs(err, 404) \/ StatusIs(err, 400)
    /\ CityOnly(city) # city

\* a slip: the 429 return is placed after console.error
LoggedAlsoRateLimit(err) ==
    ~(StatusIs(err, 401) \/ StatusIs(err, 404) \/ StatusIs(err, 400))

\* whether the catch block reaches console.error
Logged(err) ==
    ~(StatusIs(err, 401) \/ StatusIs(err, 404) \/ StatusIs(err, 400) \/ StatusIs(err, 429))

\* the entry console.error('Tomorrow.io error:', status, apiMessage || error.message) writes
LogEntry(err) ==
    [prefix |-> "Tomorrow.io error:", hasStatus |-> err.hasResponse, status |-> err.status,
     text |-> IF ApiMessage(err) # <<>> THEN ApiMessage(err) ELSE err.message]

\* a slip: the 401 and 429 branches prefer the provider's message too
CatchResultPrefersApiMessage(err) ==
    IF StatusIs(err, 401)
    THEN Failure(IF ApiMessage(err) # <<>> THEN ApiMessage(err) ELSE MsgInvalidKey)
    ELSE IF StatusIs(err, 404) \/ StatusIs(err, 400)
    THEN Failure(IF ApiMessage(err) # <<>> THEN ApiMessage(err) ELSE MsgNotFound)
    ELSE IF StatusIs(err, 429)
    THEN Failure(IF ApiMessage(err) # <<>> THEN ApiMessage(err) ELSE MsgTooMany)
    ELSE Failure(IF ApiMessage(err) # <<>> THEN ApiMessage(err)
                 ELSE IF err.message # <<>> THEN err.message
                 ELSE MsgCouldNotFetch)

\* what the catch block returns for the first call's exception when it makes
\* no second call, or when the second call has thrown
CatchResult(err) ==
    IF StatusIs(err, 401) THEN Failure(MsgInvalidKey)
    ELSE IF StatusIs(err, 404) \/ StatusIs(err, 400)
    THEN Failure(IF ApiMessage(err) # <<>> THEN ApiMessage(err) ELSE MsgNotFound)
    ELSE IF StatusIs(err, 429) THEN Failure(MsgTooMany)
    ELSE Failure(IF ApiMessage(err) # <<>> THEN ApiMessage(err)
                 ELSE IF err.message # <<>> THEN err.message
                 ELSE MsgCouldNotFetch)

\* a slip: the retry is awaited but its value is not returned
RetryResultDropsSuccess(err, city, o2) == CatchResult(err)

\* a slip: the retry's own exception is classified in place of the first one
RetryResultReclassifies(err, city, o2) ==
    IF ~ThrownBy(o2).threw THEN TryFetchValue(CityOnly(city), o2)
    ELSE CatchResult(ThrownBy(o2))

\* what fetchWeatherData returns once the second call has settled with o2,
\* the first call having thrown err
RetryResult(err, city, o2) ==
    IF ~ThrownBy(o2).threw THEN TryFetchValue(CityOnly(city), o2) ELSE CatchResult(err)

----------------------------------------------------------------------------
(* The request handler *)

NoResponse == [status |-> 0, contentType |-> "", error |-> <<>>, data |-> Pending]

\* the .then callback: 200 with the result, or 401/404 with its error
ThenResponse(weatherData) ==
    IF weatherData.error = <<>>
    THEN [status |-> 200, contentType |-> "application/json", error |-> <<>>,
          data |-> weatherData]
    ELSE [status |-> IF Includes(weatherData.error, "Invalid API key") THEN 401 ELSE 404,
          contentType |-> "application/json",
          error |-> IF weatherData.error # <<>> THEN weatherData.error ELSE MsgHandlerNotFound,
          data |-> Pending]

\* the .catch callback
CatchResponse ==
    [status |-> 500, contentType |-> "application/json", error |-> MsgInternal, data |-> Pending]

\* the else branch of if (location)
MissingResponse ==
    [status |-> 400, contentType |-> "application/json", error |-> MsgParamMissing,
     data |-> Pending]

\* parsedUrl.query.location: absent, a string, or an array (a repeated parameter)
Locations ==
    { [kind |-> "missing", s |-> <<>>], [kind |-> "array", s |-> <<>>] }
    \cup { [kind |-> "string", s |-> s] : s \in Concats(LookupSegments, MaxLookupParts) }

\* if (location)
Truthy(loc) == loc.kind = "array" \/ (loc.kind = "string" /\ loc.s # <<>>)

----------------------------------------------------------------------------
(* Specification of a /weather request *)

Init ==
    /\ pc = "idle"
    /\ apiKey \in ApiKeys
    /\ location \in Locations
    /\ normalizedCity = <<>>
    /\ calls = <<>>
    /\ responses = <<>>
    /\ result = Pending
    /\ logs = <<>>
    /\ http = NoResponse
    /\ applied = <<>>

\* the handler's synchronous part: the location test, and fetchWeatherData up
\* to the await of the first axios.get
HandleRequest ==
    /\ pc = "idle"
    /\ UNCHANGED <<apiKey, location, responses, logs, applied>>
    /\ IF ~Truthy(location)
       THEN /\ http' = MissingResponse
            /\ pc' = "responded"
            /\ UNCHANGED <<normalizedCity, calls, result>>
       ELSE /\ UNCHANGED http
            /\ IF ~KeyConfigured(apiKey)
               THEN /\ result' = Failure(MsgKeyNotSet)
                    /\ pc' = "settled"
                    /\ UNCHANGED <<normalizedCity, calls>>
               ELSE IF location.kind # "string"
               THEN /\ result' = Rejected(<<"location.trim is not a function">>)
                    /\ pc' = "settled"
                    /\ UNCHANGED <<normalizedCity, calls>>
               ELSE /\ normalizedCity' = normalizeLocation(location.s)
                    /\ IF encodeURIComponent(normalizedCity').threw
                       THEN /\ result' = Rejected(<<"URI malformed">>)
                            /\ pc' = "settled"
                            /\ UNCHANGED calls
                       ELSE /\ calls' = Append(calls, normalizedCity')
                            /\ pc' = "await1"
                            /\ UNCHANGED result

\* the first axios.get settles with o: the rest of tryFetch, and on an
\* exception the catch block up to its return or to the await of the retry
FirstResponse(o) ==
    /\ pc = "await1"
    /\ responses' = Append(responses, o)
    /\ UNCHANGED <<apiKey, location, normalizedCity, http, applied>>
    /\ LET err == ThrownBy(o)
       IN  IF ~err.threw
           THEN /\ result' = TryFetchValue(normalizedCity, o)
                /\ pc' = "settled"
                /\ UNCHANGED <<calls, logs>>
           ELSE IF ShouldRetry(err, normalizedCity)
           THEN IF encodeURIComponent(CityOnly(normalizedCity)).threw
                THEN /\ result' = CatchResult(err)
                     /\ pc' = "settled"
                     /\ UNCHANGED <<calls, logs>>
                ELSE /\ calls' = Append(calls, CityOnly(normalizedCity))
                     /\ pc' = "await2"
                     /\ UNCHANGED <<result, logs>>
           ELSE /\ result' = CatchResult(err)
                /\ logs' = IF Logged(err) THEN Append(logs, LogEntry(err)) ELSE logs
                /\ pc' = "settled"
                /\ UNCHANGED calls

\* the retry's axios.get settles with o
SecondResponse(o) ==
    /\ pc = "await2"
    /\ responses' = Append(responses, o)
    /\ result' = RetryResult(ThrownBy(responses[1]), normalizedCity, o)
    /\ pc' = "settled"
    /\ UNCHANGED <<apiKey, location, normalizedCity, calls, logs, http, applied>>

\* the promise has settled: the handler's .then or .catch callback
Respond ==
    /\ pc = "settled"
    /\ http' = IF result.state = "rejected" THEN CatchResponse ELSE ThenResponse(result)
    /\ logs' = IF result.state = "rejected"
               THEN Append(logs, [prefix |-> "An error occurred:", hasStatus |-> FALSE,
                                  status |-> 0, text |-> result.error])
               ELSE logs
    /\ pc' = "responded"
    /\ UNCHANGED <<apiKey, location, normalizedCity, calls, responses, result, applied>>

Next ==
    \/ HandleRequest
    \/ \E o \in Outcomes : FirstResponse(o)
    \/ \E o \in Outcomes : SecondResponse(o)
    \/ Respond

Spec == Init /\ [][Next]_vars

----------------------------------------------------------------------------
(* Specification of normalizeLocation applied twice *)

InitNorm ==
    /\ pc = "norm0"
    /\ apiKey = [defined |-> FALSE, value |-> ""]
    /\ location \in {[kind |-> "string", s |-> s] : s \in Concats(NormSegments, MaxParts)}
    /\ normalizedCity = <<>>
    /\ calls = <<>>
    /\ responses = <<>>
    /\ result = Pending
    /\ logs = <<>>
    /\ http = NoResponse
    /\ applied = <<>>

NormalizeOnce ==
    /\ pc = "norm0"
    /\ applied' = <<normalizeLocation(location.s)>>
    /\ pc' = "norm1"
    /\ UNCHANGED <<apiKey, location, normalizedCity, calls, responses, result, logs, http>>

NormalizeAgain ==
    /\ pc = "norm1"
    /\ applied' = Append(applied, normalizeLocation(applied[1]))
    /\ pc' = "norm2"
    /\ UNCHANGED <<apiKey, location, normalizedCity, calls, responses, result, logs, http>>

NextNorm == NormalizeOnce \/ NormalizeAgain

SpecNorm == InitNorm /\ [][NextNorm]_vars

----------------------------------------------------------------------------
(* Properties *)

\* fetchWeatherData has been invoked and its promise has settled
LookupDone == pc \in {"settled", "responded"} /\ result.state # "pending"

HasComma(s) == \E i \in 1..Len(s) : s[i] = ","

\* the first provider call failed with an error response of one of the statuses
FirstFailedWith(statuses) ==
    /\ Len(responses) >= 1
    /\ responses[1].kind = "http"
    /\ responses[1].status \in statuses

\* the provider's message in the first call's error response, <<>> without one
FirstApiMessage ==
    IF responses[1].errorData.message # <<>> THEN responses[1].errorData.message
    ELSE responses[1].errorData.error

\* a provider call returned a 2xx response that carries the values object
Succeeded(o) == o.kind = "ok" /\ o.values.present

IsSuccess(r) ==
    /\ r.state = "fulfilled"
    /\ r.keys = {"city", "temperature", "description"}
    /\ r.error = <<>>

IsFailure(r) ==
    /\ r.state = "fulfilled"
    /\ r.keys = {"error"}
    /\ r.error # <<>>

LookupLogs == SelectSeq(logs, LAMBDA e : e.prefix = "Tomorrow.io error:")

\* C1: a /weather request with a non-empty location whose lookup returns a
\* Failure is answered 401 when no valid credential is configured or the
\* provider answered 401, and 404 for every other failure.
C1_FailureStatus ==
    (/\ pc = "responded"
     /\ location.kind = "string"
     /\ location.s # <<>>
     /\ IsFailure(result))
    => http.status =
         IF \/ ~apiKey.defined
            \/ apiKey.value \in {"", Placeholder}
            \/ FirstFailedWith({401})
         THEN 401 ELSE 404

\* C2: at most two provider calls are issued; a second one only after the
\* first failed with status 404 or 400 for a normalized query with a comma,
\* and its query is the trimmed part of that query before its first comma.
C2_AtMostOneRetry ==
    /\ Len(calls) <= 2
    /\ Len(responses) <= Len(calls)
    /\ Len(calls) = 2 =>
         /\ FirstFailedWith({404, 400})
         /\ HasComma(normalizedCity)
         /\ calls[1] = normalizedCity
         /\ calls[2] = Trim(SplitFirst(normalizedCity))

C2_Witness ==
    /\ Len(calls) = 2
    /\ LookupDone
    /\ calls[2] = <<"L">>
    /\ calls[1] = <<"L", ",", "G", "B">>

\* C3: with the credential unset or equal to the placeholder, the lookup
\* returns the "API key not set" Failure and issues no provider call,
\* whatever the location.
C3_NotConfigured ==
    (/\ ~apiKey.defined \/ apiKey.value \in {"", Placeholder}
     /\ Truthy(location)
     /\ pc # "idle")
    => /\ result = Failure(MsgKeyNotSet)
       /\ calls = <<>>
       /\ responses = <<>>

C3_Witness ==
    /\ apiKey.value = Placeholder
    /\ location.kind = "string"
    /\ HasComma(location.s)
    /\ pc = "settled"
    /\ result.error = MsgKeyNotSet

\* C4: when the first call fails with 404 or 400 for a normalized query with
\* a comma and the city-only retry succeeds, the lookup returns the Success
\* built from the retry's response and the city-only query.
C4_FallbackSuccess ==
    (/\ FirstFailedWith({404, 400})
     /\ HasComma(normalizedCity)
     /\ Len(responses) = 2
     /\ Succeeded(responses[2]))
    => /\ IsSuccess(result)
       /\ result.city = CityName(responses[2].location, Trim(SplitFirst(normalizedCity)))
       /\ result.temperature = Temperature(responses[2].values)
       /\ result.description = Description(responses[2].values.weatherCode)

C4_Witness ==
    /\ FirstFailedWith({404})
    /\ Len(responses) = 2
    /\ Succeeded(responses[2])
    /\ normalizedCity = <<"L", ",", "G", "B">>
    /\ result.city = <<"L">>
    /\ ~result.temperature.dash
    /\ result.temperature.hundredths = 1846

\* C5: a first call failing with 401 gives the fixed "Invalid API key"
\* Failure, one failing with 429 the fixed "Too many requests" Failure; in
\* both cases exactly one provider call is made.
C5_NoRetryOn401And429 ==
    /\ (FirstFailedWith({401}) /\ pc # "await1") =>
          /\ result = Failure(MsgInvalidKey)
          /\ Len(calls) = 1
    /\ (FirstFailedWith({429}) /\ pc # "await1") =>
          /\ result = Failure(MsgTooMany)
          /\ Len(calls) = 1

C5_Witness ==
    /\ FirstFailedWith({429})
    /\ HasComma(normalizedCity)
    /\ FirstApiMessage # <<>>
    /\ result = Failure(MsgTooMany)
    /\ pc = "responded"

\* C6: when the provider answers 404 for a normalized query without a comma,
\* the lookup returns a Failure with the provider's message if present, else
\* the generic "location not found" message, and makes exactly one call.
C6_NotFoundNoComma ==
    (/\ FirstFailedWith({404})
     /\ ~HasComma(normalizedCity)
     /\ pc # "await1")
    => /\ Len(calls) = 1
       /\ IsFailure(result)
       /\ result.error = IF FirstApiMessage # <<>> THEN FirstApiMessage ELSE MsgNotFound

C6_Witness ==
    /\ FirstFailedWith({404})
    /\ ~HasComma(normalizedCity)
    /\ pc = "settled"
    /\ result.error = MsgNotFound

\* C7: normalizeLocation is idempotent: applying it to its own result gives
\* that result again.
C7_Idempotent == pc = "norm2" => applied[2] = applied[1]

C7_Witness ==
    /\ pc = "norm2"
    /\ location.s = <<"L", " ", ",">> \o TokenUnitedKingdom
    /\ applied[1] = <<"L", ",", "G", "B">>

C9_FallbackFailure ==
    (/\ FirstFailedWith({404, 400})
     /\ Len(responses) = 2
     /\ ~Succeeded(responses[2]))
    => /\ IsFailure(result)
       /\ result.error = IF FirstApiMessage # <<>> THEN FirstApiMessage ELSE MsgNotFound
       /\ Len(calls) = 2
       /\ pc \in {"settled", "responded"}

C9_Witness ==
    /\ FirstFailedWith({400})
    /\ Len(responses) = 2
    /\ responses[2].kind = "http"
    /\ responses[2].status = 401
    /\ responses[2].errorData.message # <<>>
    /\ result.error = MsgNotFound

\* C10: a lookup writes a provider-error log entry exactly when its first
\* provider call failed with something other than status 401, 404, 400 or
\* 429; it then made exactly one call and returns a Failure with the
\* provider's message if present, else the raw error text, else the generic
\* "could not fetch weather" message.
C10_LogsUnexpectedOnly ==
    /\ pc \in {"idle", "await1", "await2"} => LookupLogs = <<>>
    /\ LookupDone =>
         /\ LookupLogs # <<>> <=>
              /\ Len(responses) >= 1
              /\ ~Succeeded(responses[1])
              /\ ~FirstFailedWith({401, 404, 400, 429})
         /\ LookupLogs # <<>> =>
              /\ Len(LookupLogs) = 1
              /\ Len(calls) = 1
              /\ IsFailure(result)
              /\ result.error =
                   IF FirstApiMessage # <<>> THEN FirstApiMessage
                   ELSE IF responses[1].kind = "ok" THEN MsgInvalidResponse
                   ELSE IF responses[1].message # <<>> THEN responses[1].message
                   ELSE MsgCouldNotFetch

C10_Witness ==
    /\ LookupDone
    /\ Len(LookupLogs) = 1
    /\ responses[1].kind = "network"
    /\ result.error = MsgCouldNotFetch

====
